---- MODULE Spec2Model ----
(***************************************************************************)
(* Model of the DocuSign client's Connect-configuration and Payment        *)
(* operations (docusign/src/connect_configurations.rs, payments.rs).       *)
(* Strings are sequences of one-character strings, so that URL building,   *)
(* percent-encoding and query joining are computed character by character. *)
(* Every operation is one synchronous piece (build the URL, serialise the  *)
(* body, hand the request to the shared client) followed by one await.     *)
(***************************************************************************)
EXTENDS Integers, Sequences, FiniteSets, TLC

VARIABLES pc, op, args, sent, clientOutcome, result

vars == <<pc, op, args, sent, clientOutcome, result>>

\* Number of calls that may be in flight on the shared client at once.
NumCalls == 2

Calls == 1..NumCalls

----------------------------------------------------------------------------
\* Generic sequence helpers.

RECURSIVE Concat(_)
Concat(ss) == IF ss = <<>> THEN <<>> ELSE Head(ss) \o Concat(Tail(ss))

RECURSIVE JoinWith(_, _)
JoinWith(ss, sep) ==
  IF ss = <<>> THEN <<>>
  ELSE IF Len(ss) = 1 THEN ss[1]
  ELSE ss[1] \o sep \o JoinWith(Tail(ss), sep)

----------------------------------------------------------------------------
\* Percent-encoding.

\* The two hex digits of every non-alphanumeric character the inputs use.
HexOf ==
  [ch \in {"/", "%", "?", "&", "=", " ", "#", "+"} |->
     CASE ch = "/" -> <<"2", "F">>
       [] ch = "%" -> <<"2", "5">>
       [] ch = "?" -> <<"3", "F">>
       [] ch = "&" -> <<"2", "6">>
       [] ch = "=" -> <<"3", "D">>
       [] ch = " " -> <<"2", "0">>
       [] ch = "#" -> <<"2", "3">>
       [] ch = "+" -> <<"2", "B">>]

Reserved == DOMAIN HexOf

\* progenitor_support::encode_path: a path segment with every reserved
\* character replaced by its %XX escape.
encode_path(s) ==
  Concat([i \in 1..Len(s) |->
            IF s[i] \in Reserved THEN <<"%">> \o HexOf[s[i]] ELSE <<s[i]>>])

\* form_urlencoded::byte_serialize as used by serde_urlencoded: a space
\* becomes '+', alphanumerics and * - . _ stay, anything else becomes %XX.
byte_serialize(s) ==
  Concat([i \in 1..Len(s) |->
            IF s[i] = " " THEN <<"+">>
            ELSE IF s[i] \in Reserved THEN <<"%">> \o HexOf[s[i]]
            ELSE <<s[i]>>])

\* serde_urlencoded::to_string on a Vec<(String, String)>: the pairs
\* key=value, both sides form-encoded, joined by '&'.
to_string(query_args) ==
  JoinWith([i \in 1..Len(query_args) |->
              byte_serialize(query_args[i][1]) \o <<"=">>
                \o byte_serialize(query_args[i][2])],
           <<"&">>)

----------------------------------------------------------------------------
\* JSON bodies.

J_open == <<"{", "\"", "n", "a", "m", "e", "\"", ":", "\"">>

J_close == <<"\"", "}">>

\* serde_json::to_vec: the JSON bytes of the body, or an error when the
\* body cannot be encoded.
to_vec(body) ==
  IF body.encodable
    THEN [ok |-> TRUE, bytes |-> J_open \o body.name \o J_close]
    ELSE [ok |-> FALSE, bytes |-> <<>>]

None == [some |-> FALSE, bytes |-> <<>>]

Some(bytes) == [some |-> TRUE, bytes |-> bytes]

----------------------------------------------------------------------------
\* What the synchronous part of an operation does: the requests it hands to
\* the client, and how it ends (awaiting the client, returning a
\* serialisation error, or panicking).

Request(verb, url, body) == [verb |-> verb, url |-> url, body |-> body]

Await(req) == [reqs |-> <<req>>, end |-> "await"]

ReturnErr == [reqs |-> <<>>, end |-> "err"]

Panic == [reqs |-> <<>>, end |-> "panic"]

P_accounts == <<"/", "v", "2", ".", "1", "/", "a", "c", "c", "o", "u", "n", "t", "s", "/">>

P_connect == <<"/", "c", "o", "n", "n", "e", "c", "t">>

P_slash == <<"/">>

P_users == <<"/", "u", "s", "e", "r", "s", "?">>

P_billing == <<"/", "b", "i", "l", "l", "i", "n", "g", "_", "p", "a", "y", "m", "e", "n", "t", "s">>

P_query == <<"?">>

K_count == <<"c", "o", "u", "n", "t">>

\* Variant: the key written in camel case.
K_email_substring_camel == <<"e", "m", "a", "i", "l", "S", "u", "b", "s", "t", "r", "i", "n", "g">>

K_email_substring == <<"e", "m", "a", "i", "l", "_", "s", "u", "b", "s", "t", "r", "i", "n", "g">>

K_list_included_users == <<"l", "i", "s", "t", "_", "i", "n", "c", "l", "u", "d", "e", "d", "_", "u", "s", "e", "r", "s">>

K_start_position == <<"s", "t", "a", "r", "t", "_", "p", "o", "s", "i", "t", "i", "o", "n">>

K_status == <<"s", "t", "a", "t", "u", "s">>

K_user_name_substring == <<"u", "s", "e", "r", "_", "n", "a", "m", "e", "_", "s", "u", "b", "s", "t", "r", "i", "n", "g">>

K_from_date == <<"f", "r", "o", "m", "_", "d", "a", "t", "e", "=">>

K_to_date == <<"t", "o", "_", "d", "a", "t", "e", "=">>

\* A conditional push onto query_args.
PushIf(cond, item) == IF cond THEN <<item>> ELSE <<>>

----------------------------------------------------------------------------
\* Connect-configuration operations.

connect_get_config(account_id) ==
  LET url == P_accounts \o encode_path(account_id) \o P_connect
  IN  Await(Request("GET", url, None))

connect_put_configuration(account_id, body) ==
  LET url == P_accounts \o encode_path(account_id) \o P_connect
      ser == to_vec(body)
  IN  IF ser.ok THEN Await(Request("PUT", url, Some(ser.bytes))) ELSE ReturnErr

\* Variant: the request is handed over before the body is serialised.
connect_post_configuration_send_first(account_id, body) ==
  LET url == P_accounts \o encode_path(account_id) \o P_connect
      ser == to_vec(body)
  IN  IF ser.ok THEN Await(Request("POST", url, Some(ser.bytes)))
      ELSE [reqs |-> <<Request("POST", url, None)>>, end |-> "err"]

connect_post_configuration(account_id, body) ==
  LET url == P_accounts \o encode_path(account_id) \o P_connect
      ser == to_vec(body)
  IN  IF ser.ok THEN Await(Request("POST", url, Some(ser.bytes))) ELSE ReturnErr

connect_get_config_connect_configurations(account_id, connect_id) ==
  LET url == P_accounts \o encode_path(account_id) \o P_connect
               \o P_slash \o encode_path(connect_id)
  IN  Await(Request("GET", url, None))

\* Variant: the DELETE issued through the client's get.
connect_delete_config_as_get(account_id, connect_id) ==
  LET url == P_accounts \o encode_path(account_id) \o P_connect
               \o P_slash \o encode_path(connect_id)
  IN  Await(Request("GET", url, None))

connect_delete_config(account_id, connect_id) ==
  LET url == P_accounts \o encode_path(account_id) \o P_connect
               \o P_slash \o encode_path(connect_id)
  IN  Await(Request("DELETE", url, None))

connect_get_user(account_id, connect_id, count, email_substring, list_included_users, start_position, status, user_name_substring) ==
  LET query_args ==
           PushIf(count # <<>>, <<K_count, count>>)
        \o PushIf(email_substring # <<>>, <<K_email_substring, email_substring>>)
        \o PushIf(list_included_users # <<>>,
                  <<K_list_included_users, list_included_users>>)
        \o PushIf(start_position # <<>>, <<K_start_position, start_position>>)
        \o PushIf(status # <<>>, <<K_status, status>>)
        \o PushIf(user_name_substring # <<>>,
                  <<K_user_name_substring, user_name_substring>>)
      query_ == to_string(query_args)
      url == P_accounts \o encode_path(account_id) \o P_connect
               \o P_slash \o encode_path(connect_id) \o P_users \o query_
  IN  Await(Request("GET", url, None))

----------------------------------------------------------------------------
\* Payment operations.

\* Variant: the '?' is written only when there is a query.
billing_get_payment_list_bare(account_id, from_date, to_date) ==
  LET query_args ==
           PushIf(from_date # <<>>, K_from_date \o from_date)
        \o PushIf(to_date # <<>>, K_to_date \o to_date)
      query == JoinWith(query_args, <<"&">>)
      url == P_accounts \o encode_path(account_id) \o P_billing
               \o (IF query = <<>> THEN <<>> ELSE P_query \o query)
  IN  Await(Request("GET", url, None))

billing_get_payment_list(account_id, from_date, to_date) ==
  LET query_args ==
           PushIf(from_date # <<>>, K_from_date \o from_date)
        \o PushIf(to_date # <<>>, K_to_date \o to_date)
      query == JoinWith(query_args, <<"&">>)
      url == P_accounts \o encode_path(account_id) \o P_billing
               \o P_query \o query
  IN  Await(Request("GET", url, None))

billing_post_payment(account_id, body) ==
  LET url == P_accounts \o encode_path(account_id) \o P_billing
      ser == to_vec(body)
  IN  IF ser.ok THEN Await(Request("POST", url, Some(ser.bytes))) ELSE Panic

\* Variant: the payment id inserted into the path as it is.
billing_get_payment_raw_id(account_id, payment_id) ==
  LET url == P_accounts \o encode_path(account_id) \o P_billing
               \o P_slash \o payment_id
  IN  Await(Request("GET", url, None))

billing_get_payment(account_id, payment_id) ==
  LET url == P_accounts \o encode_path(account_id) \o P_billing
               \o P_slash \o encode_path(payment_id)
  IN  Await(Request("GET", url, None))

----------------------------------------------------------------------------
\* Outcomes: what the client reports for a request and what an operation
\* returns to its caller.

NoOutcome == [kind |-> "none", value |-> "", code |-> 0]

Ok(value) == [kind |-> "ok", value |-> value, code |-> 0]

TransportError == [kind |-> "transport", value |-> "", code |-> 0]

StatusError(code) == [kind |-> "status", value |-> "", code |-> code]

DecodeError == [kind |-> "serialization", value |-> "response", code |-> 0]

\* The anyhow error the ? operator makes of a serde_json::Error.
SerializationError == [kind |-> "serialization", value |-> "request", code |-> 0]

OpNames ==
  {"connect_get_config", "connect_put_configuration",
   "connect_post_configuration", "connect_get_config_connect_configurations",
   "connect_delete_config", "connect_get_user", "billing_get_payment_list",
   "billing_post_payment", "billing_get_payment"}

\* The success type of each operation's Result.
RetType(o) ==
  CASE o = "connect_get_config" -> "ConnectConfigResults"
    [] o = "connect_put_configuration" -> "ConnectCustomConfiguration"
    [] o = "connect_post_configuration" -> "ConnectCustomConfiguration"
    [] o = "connect_get_config_connect_configurations" -> "ConnectConfigResults"
    [] o = "connect_delete_config" -> "()"
    [] o = "connect_get_user" -> "IntegratedUserInfoList"
    [] o = "billing_get_payment_list" -> "BillingPaymentsResponse"
    [] o = "billing_post_payment" -> "BillingPaymentResponse"
    [] o = "billing_get_payment" -> "BillingPaymentItem"

\* The shared client's get/put/post/delete: a decoded value of the expected
\* type, or a transport, status or decode error.
ClientOutcomes(o, I) ==
  {x \in {Ok(RetType(o)), TransportError, StatusError(404), DecodeError} :
     x.kind \in I.outcomes}

\* Variant: a status error is swallowed.
Propagate_swallow(outcome) ==
  IF outcome.kind = "status" THEN Ok("()") ELSE outcome

\* The operation's tail expression `self.client.verb(..).await`: the
\* client's Result is the operation's Result.
Propagate(outcome) == outcome

\* Variant: the built request is kept in one buffer all calls share.
Hand_shared(sentv, c, reqs) == [d \in DOMAIN sentv |-> reqs]

\* The request goes to the client as the future of the call that built it.
Hand(sentv, c, reqs) == [sentv EXCEPT ![c] = reqs]

----------------------------------------------------------------------------
\* Inputs.

S_A1 == <<"A", "1">>

S_P1 == <<"P", "1">>

S_slash == <<"a", "/", "b">>

S_pct == <<"%", "2", "F">>

S_mixed == <<"p", "?", "q", "#", " ">>

S_7 == <<"7">>

S_amp == <<"x", "&", "y", "=", "z">>

S_tail == <<"a", " ", "&">>

S_form == <<"x", "&", "y", "=", " ", "+">>

NoBodyArg == [name |-> <<>>, encodable |-> TRUE]

Bodies ==
  {[name |-> <<"x">>, encodable |-> TRUE],
   [name |-> <<"y">>, encodable |-> TRUE],
   [name |-> <<"x">>, encodable |-> FALSE]}

FilterVals == {<<>>, S_7, S_form}

\* One caller, every combination of identifiers and filters.
Wide ==
  [accounts |-> {S_A1, S_slash, S_pct},
   ids |-> {S_P1, S_slash, S_mixed},
   users |-> [1..6 -> FilterVals],
   dates |-> [1..2 -> {<<>>, S_7, S_amp, S_tail}],
   bodies |-> Bodies,
   outcomes |-> {"ok", "transport", "status", "serialization"}]

\* Concurrent callers, a few inputs each.
Narrow ==
  [accounts |-> {S_A1, S_slash},
   ids |-> {S_mixed},
   users |-> {<<S_7, <<>>, S_amp, <<>>, <<>>, <<>>>>},
   dates |-> {<<<<>>, S_amp>>},
   bodies |-> {[name |-> <<"x">>, encodable |-> TRUE],
               [name |-> <<"x">>, encodable |-> FALSE]},
   outcomes |-> {"ok", "status"}]

Args(account_id, id2, filters, body) ==
  [account_id |-> account_id, id2 |-> id2, filters |-> filters, body |-> body]

NoArgs == Args(<<>>, <<>>, <<>>, NoBodyArg)

----------------------------------------------------------------------------
\* The state machine.

Init ==
  /\ pc = [c \in Calls |-> "idle"]
  /\ op = [c \in Calls |-> "none"]
  /\ args = [c \in Calls |-> NoArgs]
  /\ sent = [c \in Calls |-> <<>>]
  /\ clientOutcome = [c \in Calls |-> NoOutcome]
  /\ result = [c \in Calls |-> NoOutcome]

\* Call c runs operation o on arguments a up to its await point (or to its
\* early return or panic); eff is what the operation's code does there.
Start(c, o, a, eff) ==
  /\ op' = [op EXCEPT ![c] = o]
  /\ args' = [args EXCEPT ![c] = a]
  /\ sent' = Hand(sent, c, eff.reqs)
  /\ pc' = [pc EXCEPT ![c] = CASE eff.end = "await" -> "awaiting"
                                [] eff.end = "err" -> "done"
                                [] eff.end = "panic" -> "panicked"]
  /\ result' = [result EXCEPT ![c] = IF eff.end = "err" THEN SerializationError
                                     ELSE NoOutcome]
  /\ UNCHANGED clientOutcome

ConnectGetConfig(c, I) ==
  /\ pc[c] = "idle"
  /\ \E account_id \in I.accounts :
       Start(c, "connect_get_config",
             Args(account_id, <<>>, <<>>, NoBodyArg),
             connect_get_config(account_id))

ConnectPutConfiguration(c, I) ==
  /\ pc[c] = "idle"
  /\ \E account_id \in I.accounts, body \in I.bodies :
       Start(c, "connect_put_configuration",
             Args(account_id, <<>>, <<>>, body),
             connect_put_configuration(account_id, body))

ConnectPostConfiguration(c, I) ==
  /\ pc[c] = "idle"
  /\ \E account_id \in I.accounts, body \in I.bodies :
       Start(c, "connect_post_configuration",
             Args(account_id, <<>>, <<>>, body),
             connect_post_configuration(account_id, body))

ConnectGetConfigConnectConfigurations(c, I) ==
  /\ pc[c] = "idle"
  /\ \E account_id \in I.accounts, connect_id \in I.ids :
       Start(c, "connect_get_config_connect_configurations",
             Args(account_id, connect_id, <<>>, NoBodyArg),
             connect_get_config_connect_configurations(account_id, connect_id))

ConnectDeleteConfig(c, I) ==
  /\ pc[c] = "idle"
  /\ \E account_id \in I.accounts, connect_id \in I.ids :
       Start(c, "connect_delete_config",
             Args(account_id, connect_id, <<>>, NoBodyArg),
             connect_delete_config(account_id, connect_id))

ConnectGetUser(c, I) ==
  /\ pc[c] = "idle"
  /\ \E account_id \in I.accounts, connect_id \in I.ids, f \in I.users :
       Start(c, "connect_get_user",
             Args(account_id, connect_id, f, NoBodyArg),
             connect_get_user(account_id, connect_id,
                              f[1], f[2], f[3], f[4], f[5], f[6]))

BillingGetPaymentList(c, I) ==
  /\ pc[c] = "idle"
  /\ \E account_id \in I.accounts, f \in I.dates :
       Start(c, "billing_get_payment_list",
             Args(account_id, <<>>, f, NoBodyArg),
             billing_get_payment_list(account_id, f[1], f[2]))

BillingPostPayment(c, I) ==
  /\ pc[c] = "idle"
  /\ \E account_id \in I.accounts, body \in I.bodies :
       Start(c, "billing_post_payment",
             Args(account_id, <<>>, <<>>, body),
             billing_post_payment(account_id, body))

BillingGetPayment(c, I) ==
  /\ pc[c] = "idle"
  /\ \E account_id \in I.accounts, payment_id \in I.ids :
       Start(c, "billing_get_payment",
             Args(account_id, payment_id, <<>>, NoBodyArg),
             billing_get_payment(account_id, payment_id))

\* The client finishes call c's request and the awaiting operation returns.
Complete(c, I) ==
  /\ pc[c] = "awaiting"
  /\ \E outcome \in ClientOutcomes(op[c], I) :
       /\ clientOutcome' = [clientOutcome EXCEPT ![c] = outcome]
       /\ result' = [result EXCEPT ![c] = Propagate(outcome)]
  /\ pc' = [pc EXCEPT ![c] = "done"]
  /\ UNCHANGED <<op, args, sent>>

\* One caller at a time, all inputs.
Next ==
  \/ ConnectGetConfig(1, Wide)
  \/ ConnectPutConfiguration(1, Wide)
  \/ ConnectPostConfiguration(1, Wide)
  \/ ConnectGetConfigConnectConfigurations(1, Wide)
  \/ ConnectDeleteConfig(1, Wide)
  \/ ConnectGetUser(1, Wide)
  \/ BillingGetPaymentList(1, Wide)
  \/ BillingPostPayment(1, Wide)
  \/ BillingGetPayment(1, Wide)
  \/ Complete(1, Wide)

Spec == Init /\ [][Next]_vars

\* Any number of callers (up to NumCalls) on the shared client.
NextConcurrent ==
  \E c \in Calls :
    \/ ConnectGetConfig(c, Narrow)
    \/ ConnectPutConfiguration(c, Narrow)
    \/ ConnectPostConfiguration(c, Narrow)
    \/ ConnectGetConfigConnectConfigurations(c, Narrow)
    \/ ConnectDeleteConfig(c, Narrow)
    \/ ConnectGetUser(c, Narrow)
    \/ BillingGetPaymentList(c, Narrow)
    \/ BillingPostPayment(c, Narrow)
    \/ BillingGetPayment(c, Narrow)
    \/ Complete(c, Narrow)

SpecConcurrent == Init /\ [][NextConcurrent]_vars

----------------------------------------------------------------------------
\* Reading a request the way the server does.

HasChar(s, ch) == \E i \in 1..Len(s) : s[i] = ch

IndexOf(s, ch) ==
  IF HasChar(s, ch)
    THEN CHOOSE i \in 1..Len(s) : s[i] = ch /\ \A j \in 1..(i - 1) : s[j] # ch
    ELSE 0

RECURSIVE SplitOn(_, _)
SplitOn(s, ch) ==
  IF ~HasChar(s, ch) THEN <<s>>
  ELSE LET i == IndexOf(s, ch)
       IN  <<SubSeq(s, 1, i - 1)>> \o SplitOn(SubSeq(s, i + 1, Len(s)), ch)

\* The URL up to its first '?', and what follows that '?'.
PathOf(url) ==
  IF HasChar(url, "?") THEN SubSeq(url, 1, IndexOf(url, "?") - 1) ELSE url

QueryOf(url) ==
  IF HasChar(url, "?") THEN SubSeq(url, IndexOf(url, "?") + 1, Len(url)) ELSE <<>>

IsEscape(s) ==
  /\ Len(s) >= 3
  /\ s[1] = "%"
  /\ \E ch \in Reserved : HexOf[ch] = <<s[2], s[3]>>

Unescape(s) == CHOOSE ch \in Reserved : HexOf[ch] = <<s[2], s[3]>>

\* One pass of percent-decoding.
RECURSIVE PctDecode(_)
PctDecode(s) ==
  IF s = <<>> THEN <<>>
  ELSE IF IsEscape(s) THEN <<Unescape(s)>> \o PctDecode(SubSeq(s, 4, Len(s)))
  ELSE <<s[1]>> \o PctDecode(Tail(s))

\* Decoding of a form-encoded query component: '+' is a space.
RECURSIVE FormDecode(_)
FormDecode(s) ==
  IF s = <<>> THEN <<>>
  ELSE IF IsEscape(s) THEN <<Unescape(s)>> \o FormDecode(SubSeq(s, 4, Len(s)))
  ELSE IF s[1] = "+" THEN <<" ">> \o FormDecode(Tail(s))
  ELSE <<s[1]>> \o FormDecode(Tail(s))

\* The '&'-separated parameters of the URL's query component.
QueryPairs(url) ==
  IF QueryOf(url) = <<>> THEN <<>> ELSE SplitOn(QueryOf(url), "&")

KeyOf(pair) ==
  IF HasChar(pair, "=") THEN SubSeq(pair, 1, IndexOf(pair, "=") - 1) ELSE pair

ValueOf(pair) ==
  IF HasChar(pair, "=")
    THEN FormDecode(SubSeq(pair, IndexOf(pair, "=") + 1, Len(pair)))
    ELSE <<>>

JsonDecode(bytes) ==
  IF /\ Len(bytes) >= Len(J_open) + Len(J_close)
     /\ SubSeq(bytes, 1, Len(J_open)) = J_open
     /\ SubSeq(bytes, Len(bytes) - Len(J_close) + 1, Len(bytes)) = J_close
    THEN SubSeq(bytes, Len(J_open) + 1, Len(bytes) - Len(J_close))
    ELSE <<"?">>

Issued(c) == sent[c] # <<>>

Url(c) == sent[c][1].url

QueryOps == {"connect_get_user", "billing_get_payment_list"}

BodyOps ==
  {"connect_put_configuration", "connect_post_configuration",
   "billing_post_payment"}

\* The indices of the non-empty filters, in filter order.
RECURSIVE Supplied(_, _)
Supplied(f, i) ==
  IF i > Len(f) THEN <<>>
  ELSE (IF f[i] # <<>> THEN <<i>> ELSE <<>>) \o Supplied(f, i + 1)

\* The parameter names on the wire, in the enumerated filter order.
WireKeys(o) ==
  IF o = "connect_get_user"
    THEN <<<<"c", "o", "u", "n", "t">>,
           <<"e", "m", "a", "i", "l", "_", "s", "u", "b", "s", "t", "r", "i", "n", "g">>,
           <<"l", "i", "s", "t", "_", "i", "n", "c", "l", "u", "d", "e", "d", "_", "u", "s", "e", "r", "s">>,
           <<"s", "t", "a", "r", "t", "_", "p", "o", "s", "i", "t", "i", "o", "n">>,
           <<"s", "t", "a", "t", "u", "s">>,
           <<"u", "s", "e", "r", "_", "n", "a", "m", "e", "_", "s", "u", "b", "s", "t", "r", "i", "n", "g">>>>
    ELSE <<<<"f", "r", "o", "m", "_", "d", "a", "t", "e">>,
           <<"t", "o", "_", "d", "a", "t", "e">>>>

\* The parameter names as the specification lists them for getUsers.
ListedKeys ==
  <<<<"c", "o", "u", "n", "t">>,
    <<"e", "m", "a", "i", "l", "S", "u", "b", "s", "t", "r", "i", "n", "g">>,
    <<"l", "i", "s", "t", "I", "n", "c", "l", "u", "d", "e", "d", "U", "s", "e", "r", "s">>,
    <<"s", "t", "a", "r", "t", "P", "o", "s", "i", "t", "i", "o", "n">>,
    <<"s", "t", "a", "t", "u", "s">>,
    <<"u", "s", "e", "r", "N", "a", "m", "e", "S", "u", "b", "s", "t", "r", "i", "n", "g">>>>

\* The path templates of the interface table, one entry per '/'-separated
\* segment; a placeholder names the argument the segment carries.
Lit(text) == [lit |-> TRUE, text |-> text]

Slot(name) == [lit |-> FALSE, text |-> <<name>>]

T_accounts ==
  <<Lit(<<>>), Lit(<<"v", "2", ".", "1">>),
    Lit(<<"a", "c", "c", "o", "u", "n", "t", "s">>), Slot("account_id")>>

T_connect == T_accounts \o <<Lit(<<"c", "o", "n", "n", "e", "c", "t">>)>>

T_billing ==
  T_accounts
    \o <<Lit(<<"b", "i", "l", "l", "i", "n", "g", "_", "p", "a", "y", "m", "e", "n", "t", "s">>)>>

Template(o) ==
  CASE o \in {"connect_get_config", "connect_put_configuration",
              "connect_post_configuration"} -> T_connect
    [] o \in {"connect_get_config_connect_configurations",
              "connect_delete_config"} -> T_connect \o <<Slot("id2")>>
    [] o = "connect_get_user" ->
         T_connect \o <<Slot("id2"), Lit(<<"u", "s", "e", "r", "s">>)>>
    [] o \in {"billing_get_payment_list", "billing_post_payment"} -> T_billing
    [] o = "billing_get_payment" -> T_billing \o <<Slot("id2")>>

VerbOf(o) ==
  CASE o \in {"connect_put_configuration"} -> "PUT"
    [] o \in {"connect_post_configuration", "billing_post_payment"} -> "POST"
    [] o = "connect_delete_config" -> "DELETE"
    [] OTHER -> "GET"

SlotValue(a, slot) == IF slot.text = <<"account_id">> THEN a.account_id ELSE a.id2

PathSegments(c) == SplitOn(PathOf(Url(c)), "/")

\* Every placeholder segment of call c's path decodes to c's own argument.
CarriesOwnIds(c) ==
  LET segs == PathSegments(c)
      t == Template(op[c])
  IN  /\ Len(segs) = Len(t)
      /\ \A i \in 1..Len(t) :
           ~t[i].lit => PctDecode(segs[i]) = SlotValue(args[c], t[i])

\* Every literal segment of call c's path is the template's.
FollowsTemplate(c) ==
  LET segs == PathSegments(c)
      t == Template(op[c])
  IN  /\ Len(segs) = Len(t)
      /\ \A i \in 1..Len(t) : t[i].lit => segs[i] = t[i].text

----------------------------------------------------------------------------
\* Properties of the query string.

\* The pairs of call c's query that carry filter i: its wire name and a
\* value that decodes to the filter's value.
PairsFor(c, i, keys) ==
  LET pairs == QueryPairs(Url(c))
  IN  {j \in 1..Len(pairs) :
         KeyOf(pairs[j]) = keys[i] /\ ValueOf(pairs[j]) = args[c].filters[i]}

\* C1: in connect_get_user and billing_get_payment_list an empty filter
\* contributes no parameter and a non-empty filter contributes exactly one
\* key=value pair carrying its value, so the query string holds as many
\* pairs as there are non-empty filters, whatever the values contain.
C1_OnePairPerFilter ==
  \A c \in Calls :
    (op[c] \in QueryOps /\ Issued(c)) =>
      LET f == args[c].filters
          pairs == QueryPairs(Url(c))
          keys == WireKeys(op[c])
      IN  /\ Len(pairs) = Len(Supplied(f, 1))
          /\ \A i \in 1..Len(f) :
               /\ f[i] = <<>> =>
                    ~\E j \in 1..Len(pairs) : KeyOf(pairs[j]) = keys[i]
               /\ f[i] # <<>> => Cardinality(PairsFor(c, i, keys)) = 1

\* C4 as stated: the keys of connect_get_user's query string are count,
\* emailSubstring, listIncludedUsers, startPosition, status and
\* userNameSubstring, and each non-empty filter appears under its name.
C4_ListedKeys ==
  \A c \in Calls :
    (op[c] = "connect_get_user" /\ Issued(c)) =>
      LET f == args[c].filters
          pairs == QueryPairs(Url(c))
      IN  /\ \A j \in 1..Len(pairs) :
               \E i \in 1..Len(ListedKeys) : KeyOf(pairs[j]) = ListedKeys[i]
          /\ \A i \in 1..Len(f) :
               f[i] # <<>> => PairsFor(c, i, ListedKeys) # {}

\* C4 (amended): the keys of connect_get_user's query string are count,
\* email_substring, list_included_users, start_position, status and
\* user_name_substring; every key in the query string is one of these six
\* and each non-empty filter appears under its name from this list.
C4_WireKeys ==
  \A c \in Calls :
    (op[c] = "connect_get_user" /\ Issued(c)) =>
      LET f == args[c].filters
          pairs == QueryPairs(Url(c))
          keys == WireKeys("connect_get_user")
      IN  /\ \A j \in 1..Len(pairs) :
               \E i \in 1..Len(keys) : KeyOf(pairs[j]) = keys[i]
          /\ \A i \in 1..Len(f) :
               f[i] # <<>> => PairsFor(c, i, keys) # {}

\* A connect_get_user request went out with all six filters supplied.
C4_Witness ==
  \E c \in Calls :
    /\ op[c] = "connect_get_user" /\ Issued(c)
    /\ \A i \in 1..6 : args[c].filters[i] # <<>>
    /\ args[c].filters[2] = S_form

\* C5: the query string is exactly the pairs of the non-empty filters, in
\* the enumerated filter order, with one '&' between consecutive pairs and
\* none at either end, for every subset of supplied filters.
C5_OrderedJoined ==
  \A c \in Calls :
    (op[c] \in QueryOps /\ Issued(c)) =>
      LET f == args[c].filters
          q == QueryOf(Url(c))
          pairs == QueryPairs(Url(c))
          idx == Supplied(f, 1)
          keys == WireKeys(op[c])
      IN  /\ q # <<>> => (q[1] # "&" /\ q[Len(q)] # "&")
          /\ Len(pairs) = Len(idx)
          /\ \A j \in 1..Len(idx) :
               /\ KeyOf(pairs[j]) = keys[idx[j]]
               /\ ValueOf(pairs[j]) = f[idx[j]]

\* C8: with every filter empty the URL is the path followed by '?' and
\* nothing else (/v2.1/accounts/A1/billing_payments? for account A1), and
\* the '?' is in the URL for every combination of filters.
C8_QuestionMark ==
  \A c \in Calls :
    (op[c] \in QueryOps /\ Issued(c)) =>
      LET url == Url(c)
          f == args[c].filters
      IN  /\ HasChar(url, "?")
          /\ FollowsTemplate(c)
          /\ Supplied(f, 1) = <<>> =>
               /\ url[Len(url)] = "?"
               /\ IndexOf(url, "?") = Len(url)
               /\ CarriesOwnIds(c)
          /\ (op[c] = "billing_get_payment_list" /\ args[c].account_id = S_A1
                /\ Supplied(f, 1) = <<>>) =>
               url = <<"/", "v", "2", ".", "1", "/", "a", "c", "c", "o", "u", "n", "t", "s", "/", "A", "1", "/", "b", "i", "l", "l", "i", "n", "g", "_", "p", "a", "y", "m", "e", "n", "t", "s", "?">>

\* billing_get_payment_list went out for account A1 with both dates empty.
C8_Witness ==
  \E c \in Calls :
    /\ op[c] = "billing_get_payment_list" /\ Issued(c)
    /\ args[c].account_id = S_A1
    /\ args[c].filters = <<<<>>, <<>>>>

----------------------------------------------------------------------------
\* Properties of the path, the verb and the body.

\* C2: every caller-supplied identifier is percent-encoded into the path:
\* the path has as many '/'-separated segments as the operation's template
\* (as it has for an identifier without reserved characters), and each
\* identifier's segment decodes to the original value.
C2_PathEncoded ==
  \A c \in Calls : Issued(c) => CarriesOwnIds(c)

\* A request went out for identifiers holding '/', '%', '?', '#' and ' '.
C2_Witness ==
  \E c \in Calls :
    /\ Issued(c)
    /\ op[c] = "billing_get_payment"
    /\ args[c].account_id = S_pct
    /\ args[c].id2 \in {S_slash, S_mixed}

\* C6: an invocation hands at most one request to the client; the request
\* has the verb and the path template listed for the operation, no body for
\* GET and DELETE, and the JSON encoding of the body argument for PUT and
\* POST; only the two filtered operations carry a query component.
C6_OneRequestAsListed ==
  \A c \in Calls :
    /\ Len(sent[c]) <= 1
    /\ Issued(c) =>
         LET req == sent[c][1]
         IN  /\ req.verb = VerbOf(op[c])
             /\ FollowsTemplate(c)
             /\ CarriesOwnIds(c)
             /\ op[c] \notin QueryOps => ~HasChar(req.url, "?")
             /\ req.verb \in {"GET", "DELETE"} => req.body = None
             /\ req.verb \in {"PUT", "POST"} =>
                  /\ req.body.some
                  /\ JsonDecode(req.body.bytes) = args[c].body.name
             /\ (op[c] = "billing_get_payment" /\ args[c].account_id = S_A1
                   /\ args[c].id2 = S_P1) =>
                  req.url = <<"/", "v", "2", ".", "1", "/", "a", "c", "c", "o", "u", "n", "t", "s", "/", "A", "1", "/", "b", "i", "l", "l", "i", "n", "g", "_", "p", "a", "y", "m", "e", "n", "t", "s", "/", "P", "1">>
             /\ (op[c] = "connect_post_configuration"
                   /\ args[c].account_id = S_A1) =>
                  req.url = <<"/", "v", "2", ".", "1", "/", "a", "c", "c", "o", "u", "n", "t", "s", "/", "A", "1", "/", "c", "o", "n", "n", "e", "c", "t">>

\* A DELETE for a connect id holding '/' has gone out and come back.
C6_Witness ==
  \E c \in Calls :
    /\ pc[c] = "done" /\ Issued(c)
    /\ op[c] = "connect_delete_config"
    /\ args[c].id2 = S_slash

----------------------------------------------------------------------------
\* Properties of the outcome.

\* C3: when the body of connect_put_configuration,
\* connect_post_configuration or billing_post_payment fails to encode, the
\* operation ends by returning a serialisation error to its caller and in
\* no other way.
C3_SerializationErrorReturned ==
  \A c \in Calls :
    (op[c] \in BodyOps /\ ~args[c].body.encodable) =>
      /\ pc[c] = "done"
      /\ result[c].kind = "serialization"
      /\ result[c].kind \notin {"transport", "status", "ok", "none"}

\* C7: once the request is with the client, the operation's outcome is the
\* client's outcome, value or error, unmodified; connect_delete_config
\* returns () when the client succeeds and a status error with code 404
\* when the client reports a 404.
C7_OutcomeIsClients ==
  \A c \in Calls :
    /\ (pc[c] = "awaiting") => (Issued(c) /\ result[c] = NoOutcome)
    /\ (pc[c] = "done" /\ Issued(c)) =>
         /\ clientOutcome[c] # NoOutcome
         /\ result[c] = clientOutcome[c]
         /\ (op[c] = "connect_delete_config" /\ clientOutcome[c].kind = "ok") =>
              result[c] = Ok("()")
         /\ (op[c] = "connect_delete_config"
               /\ clientOutcome[c] = StatusError(404)) =>
              (result[c].kind = "status" /\ result[c].code = 404)

\* connect_delete_config has returned after the client reported a 404.
C7_Witness ==
  \E c \in Calls :
    /\ pc[c] = "done"
    /\ op[c] = "connect_delete_config"
    /\ clientOutcome[c] = StatusError(404)

\* C10: in connect_put_configuration and connect_post_configuration the
\* body is serialised before the client is invoked: when serialisation
\* fails the operation returns the error and no request has been handed to
\* the client.
C10_NoRequestOnSerializationFailure ==
  \A c \in Calls :
    (op[c] \in {"connect_put_configuration", "connect_post_configuration"}
       /\ ~args[c].body.encodable) =>
      /\ sent[c] = <<>>
      /\ clientOutcome[c] = NoOutcome
      /\ pc[c] = "done"
      /\ result[c] = SerializationError

\* connect_post_configuration has returned for a body that does not encode.
C10_Witness ==
  \E c \in Calls :
    /\ op[c] = "connect_post_configuration"
    /\ ~args[c].body.encodable
    /\ pc[c] = "done"

----------------------------------------------------------------------------
\* Concurrent calls.

CallState(c) == <<pc[c], op[c], args[c], sent[c], clientOutcome[c], result[c]>>

\* What call c has done is a matter of its own arguments and of the
\* client's answer to its own request.
OwnRequestAndOutcome ==
  \A c \in Calls :
    /\ pc[c] = "idle" => sent[c] = <<>>
    /\ (pc[c] # "idle" /\ Issued(c)) =>
         (sent[c][1].verb = VerbOf(op[c]) /\ CarriesOwnIds(c))
    /\ (pc[c] = "done" /\ Issued(c)) => result[c] = clientOutcome[c]
    /\ \A d \in Calls :
         (pc[c] # "idle" /\ pc[d] # "idle" /\ op[c] = op[d] /\ args[c] = args[d])
           => (sent[c] = sent[d] /\ (pc[c] = "panicked") = (pc[d] = "panicked"))

\* A step of one call leaves every other call as it was, and a request
\* once issued and a result once returned never change.
OthersUntouched ==
  \A c \in Calls :
    /\ CallState(c)' # CallState(c) =>
         \A d \in Calls \ {c} : CallState(d)' = CallState(d)
    /\ Issued(c) => sent'[c] = sent[c]
    /\ result[c] # NoOutcome => result'[c] = result[c]

\* C9: with any number of calls in flight on the shared client, under every
\* interleaving each call's request and outcome are determined by its own
\* arguments and the client's response to its own request; no call's
\* request or result is altered by another call.
C9_CallsIndependent == []OwnRequestAndOutcome /\ [][OthersUntouched]_vars

\* Two different calls in flight together, one answered and one waiting.
C9_Witness ==
  \E c, d \in Calls :
    /\ c # d
    /\ pc[c] = "done" /\ Issued(c)
    /\ pc[d] = "awaiting"
    /\ op[c] # op[d]
    /\ args[c].account_id # args[d].account_id

====
